---- MODULE Spec2Model ----
(***************************************************************************)
(* tessie: a command-line wrapper that probes ffmpeg, selects a format     *)
(* preset, derives the output path, refuses to overwrite an existing file  *)
(* and runs one ffmpeg transcode (src/main.rs).                            *)
(*                                                                         *)
(* Strings are sequences of atoms.  A format token is a sequence of        *)
(* letters (one atom per character, case kept).  A path is a sequence over *)
(* PathAtoms: "." and "/" are the dot and the separator, every other atom  *)
(* is a run of characters holding neither (the atoms form a prefix code,   *)
(* so two paths are the same string iff they are the same sequence).       *)
(* A command-line argument is such a sequence too; a flag is one atom.     *)
(***************************************************************************)
EXTENDS Integers, Sequences, FiniteSets, TLC

VARIABLES
    pc,          \* position in main: "new","format","output","is_file","transcode","done"
    m,           \* the parsed command line (clap matches)
    ffmpeg,      \* the Ffmpeg struct, NoFfmpeg before Ffmpeg::new returned
    format,      \* the selected Format, NoFormat before selection
    output,      \* the derived output path, <<>> before derivation
    files,       \* the environment: paths that name a regular file
    spawned,     \* the subprocesses spawned so far, each an argument list
    exitCode,    \* the exit code of the invocation, NoExit while running
    err,         \* the error main returned, NoError if none
    trace,       \* history: the steps of main executed so far
    atCheck,     \* history: what is_file saw, and whether the input was a file then
    atSpawn,     \* history: what the file system held when the transcode was spawned
    statuses     \* history: the result of each subprocess launch, in order

vars == <<pc, m, ffmpeg, format, output, files, spawned, exitCode, err, trace, atCheck, atSpawn,
          statuses>>

----------------------------------------------------------------------------
(* Bounds *)

MaxPathLen == 4

MaxInputLen == 3

MaxMaps == 2

----------------------------------------------------------------------------
(* Generic helpers *)

None == [some |-> FALSE, val |-> <<>>]

Some(v) == [some |-> TRUE, val |-> v]

SeqsUpTo(S, n) == UNION {[1..k -> S] : k \in 0..n}

Arg(s) == <<s>>

----------------------------------------------------------------------------
(* std::path as used by Format::output_file *)

PathAtoms == {"v", "mp4", "gif", "copy", ".", "/"}

\* Index j lies in a component that is exactly "." (skipped by Components).
InDotSeg(p, j) ==
    /\ p[j] = "."
    /\ (j = 1 \/ p[j-1] = "/")
    /\ (j = Len(p) \/ p[j+1] = "/")

\* Path::file_name: the last component if it is a normal one, as the index
\* range it occupies in the path.
FileName(p) ==
    LET idx == {j \in 1..Len(p) : p[j] # "/" /\ ~InDotSeg(p, j)}
    IN  IF idx = {} THEN [some |-> FALSE, lo |-> 0, hi |-> 0]
        ELSE LET hi == CHOOSE j \in idx : \A k \in idx : k <= j
                 lo == CHOOSE i \in 1..hi :
                          /\ \A k \in i..hi : p[k] # "/"
                          /\ (i = 1 \/ p[i-1] = "/")
             IN  IF SubSeq(p, lo, hi) = <<".", ".">>
                 THEN [some |-> FALSE, lo |-> 0, hi |-> 0]
                 ELSE [some |-> TRUE, lo |-> lo, hi |-> hi]

\* rsplit_file_at_dot: (stem, extension) of a file name; a name without a
\* dot, or whose only dot is its first character, has no extension.
SplitFileAtDot(name) ==
    LET dots == {i \in 1..Len(name) : name[i] = "."}
    IN  IF dots = {} THEN [stem |-> name, ext |-> None]
        ELSE LET d == CHOOSE i \in dots : \A k \in dots : k <= i
             IN  IF d = 1 THEN [stem |-> name, ext |-> None]
                 ELSE [stem |-> SubSeq(name, 1, d - 1),
                       ext  |-> Some(SubSeq(name, d + 1, Len(name)))]

\* Path::extension
Extension(p) ==
    LET fn == FileName(p)
    IN  IF fn.some THEN SplitFileAtDot(SubSeq(p, fn.lo, fn.hi)).ext ELSE None

\* set_extension that pushes the extension behind the whole file name
SetExtension_Append(p, ext) ==
    LET fn == FileName(p)
    IN  IF ~fn.some THEN p
        ELSE LET kept == SubSeq(p, 1, fn.hi)
             IN  IF ext = <<>> THEN kept ELSE kept \o <<".">> \o ext

\* PathBuf::set_extension: does nothing when the path has no file name,
\* else truncates right after the file stem and pushes "." and the extension.
SetExtension(p, ext) ==
    LET fn == FileName(p)
    IN  IF ~fn.some THEN p
        ELSE LET stem == SplitFileAtDot(SubSeq(p, fn.lo, fn.hi)).stem
                 kept == SubSeq(p, 1, fn.lo + Len(stem) - 1)
             IN  IF ext = <<>> THEN kept ELSE kept \o <<".">> \o ext

----------------------------------------------------------------------------
(* Format *)

YouTube == "YouTube"

Gif == "Gif"

Copy == "Copy"

Formats == {YouTube, Gif, Copy}

NoFormat == "none"

\* Format::input_args
InputArgs(f) ==
    IF f = YouTube
    THEN <<Arg("-y"), Arg("-hwaccel"), Arg("cuvid"), Arg("-c:v"), Arg("h264_cuvid")>>
    ELSE <<>>

\* Format::output_args
OutputArgs(f) ==
    CASE f = YouTube ->
            <<Arg("-c:v"), Arg("h264_nvenc"), Arg("-coder"), Arg("1"),
              Arg("-preset"), Arg("llhq"), Arg("-rc:v"), Arg("vbr_minqp"),
              Arg("-qmin:v"), Arg("21"), Arg("-qmax:v"), Arg("23"),
              Arg("-b:v"), Arg("5000k"), Arg("-maxrate:v"), Arg("8000k"),
              Arg("-profile:v"), Arg("high"), Arg("-bf"), Arg("2"),
              Arg("-c:a"), Arg("aac"), Arg("-profile:a"), Arg("aac_low"),
              Arg("-b:a"), Arg("384k"), Arg("-f"), Arg("mp4")>>
      [] f = Gif ->
            <<Arg("-filter_complex"),
              Arg("[0:v] fps=12,scale=280:-1,split [a][b];[a] palettegen [p];[b][p] paletteuse"),
              Arg("-f"), Arg("gif")>>
      [] f = Copy ->
            <<Arg("-c:v"), Arg("copy"), Arg("-c:a"), Arg("copy")>>

NoError == [msg |-> "", arg |-> <<>>]

Error(msg, arg) == [msg |-> msg, arg |-> arg]

\* Format::output_file: Ok(path) or Err(error)
OutputFile(f, input) ==
    CASE f = YouTube -> [ok |-> TRUE, path |-> SetExtension(input, <<"mp4">>), err |-> NoError]
      [] f = Gif     -> [ok |-> TRUE, path |-> SetExtension(input, <<"gif">>), err |-> NoError]
      [] f = Copy    ->
            LET e == Extension(input)
            IN  IF e.some
                THEN [ok |-> TRUE, path |-> SetExtension(input, <<"copy", ".">> \o e.val),
                      err |-> NoError]
                ELSE [ok |-> FALSE, path |-> <<>>, err |-> Error("expected extension", input)]

----------------------------------------------------------------------------
(* The -f tokens *)

youtube == <<"y", "o", "u", "t", "u", "b", "e">>

YouTubeToken == <<"Y", "o", "u", "T", "u", "b", "e">>

gif == <<"g", "i", "f">>

GifToken == <<"G", "i", "f">>

copy == <<"c", "o", "p", "y">>

CopyToken == <<"C", "o", "p", "y">>

webm == <<"w", "e", "b", "m">>

\* the upper-case form of the letters of the recognized tokens
Upper ==
    [c \in {"y", "o", "u", "t", "b", "e", "g", "i", "f", "c", "p"} |->
        CASE c = "y" -> "Y" [] c = "o" -> "O" [] c = "u" -> "U" [] c = "t" -> "T"
          [] c = "b" -> "B" [] c = "e" -> "E" [] c = "g" -> "G" [] c = "i" -> "I"
          [] c = "f" -> "F" [] c = "c" -> "C" [] c = "p" -> "P"]

\* str::to_lowercase on a token
ToLower(t) ==
    [i \in 1..Len(t) |->
        IF \E l \in DOMAIN Upper : Upper[l] = t[i]
        THEN CHOOSE l \in DOMAIN Upper : Upper[l] = t[i]
        ELSE t[i]]

\* the match of main made on the lower-cased token
FormatFromToken_CaseInsensitive(tok) ==
    CASE ~tok.some \/ ToLower(tok.val) = youtube ->
            [ok |-> TRUE, format |-> YouTube, err |-> NoError]
      [] tok.some /\ ToLower(tok.val) = gif ->
            [ok |-> TRUE, format |-> Gif, err |-> NoError]
      [] tok.some /\ ToLower(tok.val) = copy ->
            [ok |-> TRUE, format |-> Copy, err |-> NoError]
      [] OTHER ->
            [ok |-> FALSE, format |-> NoFormat, err |-> Error("illegal --format", tok.val)]

\* the match of main with a catch-all arm `_ => Format::YouTube` in place of the bail
FormatFromToken_DefaultArm(tok) ==
    CASE tok.some /\ (tok.val = gif \/ tok.val = GifToken) ->
            [ok |-> TRUE, format |-> Gif, err |-> NoError]
      [] tok.some /\ (tok.val = copy \/ tok.val = CopyToken) ->
            [ok |-> TRUE, format |-> Copy, err |-> NoError]
      [] OTHER ->
            [ok |-> TRUE, format |-> YouTube, err |-> NoError]

\* The match on m.value_of("format") in main: Ok(format) or Err(error)
FormatFromToken(tok) ==
    CASE ~tok.some \/ tok.val = youtube \/ tok.val = YouTubeToken ->
            [ok |-> TRUE, format |-> YouTube, err |-> NoError]
      [] tok.some /\ (tok.val = gif \/ tok.val = GifToken) ->
            [ok |-> TRUE, format |-> Gif, err |-> NoError]
      [] tok.some /\ (tok.val = copy \/ tok.val = CopyToken) ->
            [ok |-> TRUE, format |-> Copy, err |-> NoError]
      [] OTHER ->
            [ok |-> FALSE, format |-> NoFormat, err |-> Error("illegal --format", tok.val)]

----------------------------------------------------------------------------
(* Ffmpeg *)

NoFfmpeg == [made |-> FALSE, map |-> <<>>, start |-> None, end |-> None, duration |-> None]

\* Ffmpeg::default()
DefaultFfmpeg == [made |-> TRUE, map |-> <<>>, start |-> None, end |-> None, duration |-> None]

VersionArgs == <<Arg("-version")>>

RECURSIVE MapArgs(_, _, _)
\* the loop `for m in &self.map` of Ffmpeg::transcode, from entry i on
MapArgs(cmd, map, i) ==
    IF i > Len(map) THEN cmd
    ELSE MapArgs(cmd \o <<Arg("-map"), map[i]>>, map, i + 1)

\* Ffmpeg::transcode with the map loop moved behind format.output_args
TranscodeArgs_MapsAfterOutputArgs(self, f, input, out) ==
    LET c1 == IF self.start.some THEN <<Arg("-ss"), self.start.val>> ELSE <<>>
        c2 == IF self.end.some THEN c1 \o <<Arg("-to"), self.end.val>> ELSE c1
        c3 == IF self.duration.some THEN c2 \o <<Arg("-t"), self.duration.val>> ELSE c2
        c4 == c3 \o InputArgs(f)
        c5 == c4 \o <<Arg("-i"), input>>
        c6 == c5 \o OutputArgs(f)
        c7 == MapArgs(c6, self.map, 1)
    IN  c7 \o <<out>>

\* Ffmpeg::transcode with `else if` in front of the duration test
TranscodeArgs_EndSuppressesDuration(self, f, input, out) ==
    LET c1 == IF self.start.some THEN <<Arg("-ss"), self.start.val>> ELSE <<>>
        c2 == IF self.end.some THEN c1 \o <<Arg("-to"), self.end.val>> ELSE c1
        c3 == IF ~self.end.some /\ self.duration.some
              THEN c2 \o <<Arg("-t"), self.duration.val>> ELSE c2
        c4 == c3 \o InputArgs(f)
        c5 == c4 \o <<Arg("-i"), input>>
        c6 == MapArgs(c5, self.map, 1)
        c7 == c6 \o OutputArgs(f)
    IN  c7 \o <<out>>

\* The argument list Ffmpeg::transcode builds, statement by statement.
TranscodeArgs(self, f, input, out) ==
    LET c1 == IF self.start.some THEN <<Arg("-ss"), self.start.val>> ELSE <<>>
        c2 == IF self.end.some THEN c1 \o <<Arg("-to"), self.end.val>> ELSE c1
        c3 == IF self.duration.some THEN c2 \o <<Arg("-t"), self.duration.val>> ELSE c2
        c4 == c3 \o InputArgs(f)
        c5 == c4 \o <<Arg("-i"), input>>
        c6 == MapArgs(c5, self.map, 1)
        c7 == c6 \o OutputArgs(f)
    IN  c7 \o <<out>>

----------------------------------------------------------------------------
(* main *)

NoExit == -1

ExitOk == 0

ExitErr == 1

ProcessResults == {"ok", "nonzero", "launch_failed"}

\* main returns Err(e): the runtime prints it and exits with code 1
Fail(e, step) ==
    /\ pc' = "done"
    /\ err' = e
    /\ exitCode' = ExitErr
    /\ trace' = Append(trace, step)

\* Ffmpeg::new without the test of o.status.success()
New_IgnoresStatus ==
    /\ pc = "new"
    /\ \E r \in ProcessResults :
         /\ spawned' = IF r = "launch_failed" THEN spawned ELSE Append(spawned, VersionArgs)
         /\ statuses' = Append(statuses, r)
         /\ IF r = "launch_failed"
            THEN /\ Fail(Error("io error", <<>>), "new")
                 /\ UNCHANGED ffmpeg
            ELSE /\ ffmpeg' = DefaultFfmpeg
                 /\ pc' = "format"
                 /\ trace' = Append(trace, "new")
                 /\ UNCHANGED <<err, exitCode>>
    /\ UNCHANGED <<m, format, output, files, atCheck, atSpawn>>

\* Ffmpeg::new()?  (line 224)
New ==
    /\ pc = "new"
    /\ \E r \in ProcessResults :
         /\ spawned' = IF r = "launch_failed" THEN spawned ELSE Append(spawned, VersionArgs)
         /\ statuses' = Append(statuses, r)
         /\ CASE r = "launch_failed" ->
                    /\ Fail(Error("io error", <<>>), "new")
                    /\ UNCHANGED ffmpeg
              [] r = "nonzero" ->
                    /\ Fail(Error("could not run: ffmpeg --version", <<>>), "new")
                    /\ UNCHANGED ffmpeg
              [] r = "ok" ->
                    /\ ffmpeg' = DefaultFfmpeg
                    /\ pc' = "format"
                    /\ trace' = Append(trace, "new")
                    /\ UNCHANGED <<err, exitCode>>
    /\ UNCHANGED <<m, format, output, files, atCheck, atSpawn>>

\* the format match and the copy of the options into ffmpeg (lines 226-239)
SelectFormat ==
    /\ pc = "format"
    /\ LET r == FormatFromToken(m.format)
       IN  IF r.ok
           THEN /\ format' = r.format
                /\ ffmpeg' = [ffmpeg EXCEPT !.map = m.map, !.start = m.start,
                                            !.end = m.end, !.duration = m.duration]
                /\ pc' = "output"
                /\ trace' = Append(trace, "format")
                /\ UNCHANGED <<err, exitCode>>
           ELSE /\ Fail(r.err, "format")
                /\ UNCHANGED <<format, ffmpeg>>
    /\ UNCHANGED <<m, output, files, spawned, atCheck, atSpawn, statuses>>

\* format.output_file(&input)?  (lines 241-245)
DeriveOutput ==
    /\ pc = "output"
    /\ LET r == OutputFile(format, m.input)
       IN  IF r.ok
           THEN /\ output' = r.path
                /\ pc' = "is_file"
                /\ trace' = Append(trace, "output")
                /\ UNCHANGED <<err, exitCode>>
           ELSE /\ Fail(r.err, "output")
                /\ UNCHANGED output
    /\ UNCHANGED <<m, ffmpeg, format, files, spawned, atCheck, atSpawn, statuses>>

\* Path::is_file
IsFile(p) == p \in files

\* main with the bail of the collision check left out
CheckCollision_NoBail ==
    /\ pc = "is_file"
    /\ atCheck' = [seen |-> IF IsFile(output) THEN "file" ELSE "absent",
                   inputIsFile |-> IsFile(m.input), changed |-> FALSE]
    /\ pc' = "transcode"
    /\ trace' = Append(trace, "is_file")
    /\ UNCHANGED <<err, exitCode>>
    /\ UNCHANGED <<m, ffmpeg, format, output, files, spawned, atSpawn, statuses>>

\* if output.is_file() { bail!(..) }  (lines 247-249)
CheckCollision ==
    /\ pc = "is_file"
    /\ atCheck' = [seen |-> IF IsFile(output) THEN "file" ELSE "absent",
                   inputIsFile |-> IsFile(m.input), changed |-> FALSE]
    /\ IF IsFile(output)
       THEN Fail(Error("output already exists", output), "is_file")
       ELSE /\ pc' = "transcode"
            /\ trace' = Append(trace, "is_file")
            /\ UNCHANGED <<err, exitCode>>
    /\ UNCHANGED <<m, ffmpeg, format, output, files, spawned, atSpawn, statuses>>

\* Ffmpeg::transcode without the test of the exit status
Transcode_IgnoresStatus ==
    /\ pc = "transcode"
    /\ \E r \in ProcessResults :
         /\ spawned' = IF r = "launch_failed" THEN spawned
                       ELSE Append(spawned, TranscodeArgs(ffmpeg, format, m.input, output))
         /\ statuses' = Append(statuses, r)
         /\ atSpawn' = IF r = "launch_failed" THEN atSpawn
                       ELSE [spawned |-> TRUE, outputIsFile |-> IsFile(output),
                             inputIsFile |-> IsFile(m.input)]
         /\ IF r = "launch_failed"
            THEN Fail(Error("io error", <<>>), "transcode")
            ELSE /\ pc' = "done"
                 /\ exitCode' = ExitOk
                 /\ trace' = Append(trace, "transcode")
                 /\ UNCHANGED err
    /\ UNCHANGED <<m, ffmpeg, format, output, files, atCheck>>

\* ffmpeg.transcode(format, &input, &output)?; Ok(())  (lines 251-252, 134-173)
Transcode ==
    /\ pc = "transcode"
    /\ \E r \in ProcessResults :
         /\ spawned' = IF r = "launch_failed" THEN spawned
                       ELSE Append(spawned, TranscodeArgs(ffmpeg, format, m.input, output))
         /\ statuses' = Append(statuses, r)
         /\ atSpawn' = IF r = "launch_failed" THEN atSpawn
                       ELSE [spawned |-> TRUE, outputIsFile |-> IsFile(output),
                             inputIsFile |-> IsFile(m.input)]
         /\ CASE r = "launch_failed" -> Fail(Error("io error", <<>>), "transcode")
              [] r = "nonzero" -> Fail(Error("failed to run command", <<>>), "transcode")
              [] r = "ok" ->
                    /\ pc' = "done"
                    /\ exitCode' = ExitOk
                    /\ trace' = Append(trace, "transcode")
                    /\ UNCHANGED err
    /\ UNCHANGED <<m, ffmpeg, format, output, files, atCheck>>

\* A path can name a regular file only if it ends in its file name: a path
\* that is empty or ends in a separator, "." or ".." resolves to a directory
\* or to nothing.
CanBeFile(p) == FileName(p).some /\ FileName(p).hi = Len(p)

\* The paths the environment may hold a regular file at: the input and
\* what each preset derives from it.
FsPaths(input) ==
    {p \in {input} \cup {OutputFile(f, input).path : f \in Formats} : CanBeFile(p)}

\* Another process creates a regular file while main runs.
EnvCreate ==
    /\ pc # "done"
    /\ \E p \in FsPaths(m.input) \ files : files' = files \cup {p}
    /\ atCheck' = IF pc = "transcode" THEN [atCheck EXCEPT !.changed = TRUE] ELSE atCheck
    /\ UNCHANGED <<pc, m, ffmpeg, format, output, spawned, exitCode, err, trace, atSpawn,
                   statuses>>

----------------------------------------------------------------------------
(* The inputs *)

Paths(n) == SeqsUpTo(PathAtoms, n)

MapValues == {<<"0:0">>, <<"0:1">>}

\* every upper/lower-case spelling of a lower-case token
Spellings(tok) ==
    {[i \in 1..Len(tok) |-> IF up[i] THEN Upper[tok[i]] ELSE tok[i]] :
        up \in [1..Len(tok) -> BOOLEAN]}

AllTokens ==
    {None} \cup {Some(t) : t \in Spellings(youtube) \cup Spellings(gif) \cup Spellings(copy)
                                 \cup {webm, <<>>}}

MainTokens ==
    {None, Some(youtube), Some(YouTubeToken), Some(<<"Y","O","U","T","U","B","E">>),
     Some(gif), Some(GifToken), Some(copy), Some(CopyToken), Some(webm)}

NoSpawn == [spawned |-> FALSE, outputIsFile |-> FALSE, inputIsFile |-> FALSE]

NoCheck == [seen |-> "none", inputIsFile |-> FALSE, changed |-> FALSE]

\* the state in which main starts, for a parsed command line and a file system
Start(matches, fs) ==
    /\ pc = "new"
    /\ m = matches
    /\ ffmpeg = NoFfmpeg
    /\ format = NoFormat
    /\ output = <<>>
    /\ files = fs
    /\ spawned = <<>>
    /\ exitCode = NoExit
    /\ err = NoError
    /\ trace = <<>>
    /\ atCheck = NoCheck
    /\ atSpawn = NoSpawn
    /\ statuses = <<>>

Init ==
    \E tok \in MainTokens, input \in Paths(MaxInputLen), set \in BOOLEAN :
      \E fs \in SUBSET FsPaths(input) :
        Start([format |-> tok, input |-> input,
               start |-> IF set THEN Some(<<"0:01">>) ELSE None,
               end |-> IF set THEN Some(<<"0:09">>) ELSE None,
               duration |-> IF set THEN Some(<<"5">>) ELSE None,
               map |-> IF set THEN <<<<"0:0">>>> ELSE <<>>], fs)

Next ==
    \/ New
    \/ SelectFormat
    \/ DeriveOutput
    \/ CheckCollision
    \/ Transcode
    \/ EnvCreate

Spec == Init /\ [][Next]_vars

----------------------------------------------------------------------------
(* Specifications of single steps, each started in the states in which     *)
(* main reaches the step.                                                  *)

NoOptions == [start |-> None, end |-> None, duration |-> None, map |-> <<>>]

Matches(tok, input, o) ==
    [format |-> tok, input |-> input, start |-> o.start, end |-> o.end,
     duration |-> o.duration, map |-> o.map]

\* a -f token that selects the format f
TokenOf(f) == CASE f = YouTube -> None [] f = Gif -> Some(gif) [] f = Copy -> Some(copy)

\* main after Ffmpeg::new() succeeded, for every spelling of the -f token
InitFormat ==
    \E tok \in AllTokens :
        /\ pc = "format"
        /\ m = Matches(tok, <<"v", ".", "gif">>, NoOptions)
        /\ ffmpeg = DefaultFfmpeg
        /\ format = NoFormat
        /\ output = <<>>
        /\ files = {}
        /\ spawned = <<VersionArgs>>
        /\ exitCode = NoExit
        /\ err = NoError
        /\ trace = <<"new">>
        /\ atCheck = NoCheck
        /\ atSpawn = NoSpawn
        /\ statuses = <<"ok">>

NextFormat == SelectFormat

SpecFormat == InitFormat /\ [][NextFormat]_vars

\* main after the format was selected, for every input path
InitPath ==
    \E f \in Formats, input \in Paths(MaxPathLen) :
        /\ pc = "output"
        /\ m = Matches(TokenOf(f), input, NoOptions)
        /\ ffmpeg = DefaultFfmpeg
        /\ format = f
        /\ output = <<>>
        /\ files = {}
        /\ spawned = <<VersionArgs>>
        /\ exitCode = NoExit
        /\ err = NoError
        /\ trace = <<"new", "format">>
        /\ atCheck = NoCheck
        /\ atSpawn = NoSpawn
        /\ statuses = <<"ok">>

NextPath == DeriveOutput

SpecPath == InitPath /\ [][NextPath]_vars

ArgInputs == {<<"v">>, <<"v", ".", "gif">>, <<"v", "/", "v", ".", "mp4">>}

\* main after the collision check passed, for every combination of options
InitArgs ==
    \E f \in Formats, input \in ArgInputs,
       s \in {None, Some(<<"0:01">>)}, e \in {None, Some(<<"0:09">>)},
       d \in {None, Some(<<"5">>)}, maps \in SeqsUpTo(MapValues, MaxMaps) :
        /\ OutputFile(f, input).ok
        /\ pc = "transcode"
        /\ m = Matches(TokenOf(f), input,
                       [start |-> s, end |-> e, duration |-> d, map |-> maps])
        /\ ffmpeg = [made |-> TRUE, map |-> maps, start |-> s, end |-> e, duration |-> d]
        /\ format = f
        /\ output = OutputFile(f, input).path
        /\ files = {}
        /\ spawned = <<VersionArgs>>
        /\ exitCode = NoExit
        /\ err = NoError
        /\ trace = <<"new", "format", "output", "is_file">>
        /\ atCheck = [seen |-> "absent", inputIsFile |-> FALSE, changed |-> FALSE]
        /\ atSpawn = NoSpawn
        /\ statuses = <<"ok">>

NextArgs == Transcode

SpecArgs == InitArgs /\ [][NextArgs]_vars

----------------------------------------------------------------------------
(* Properties of the argument list (SpecArgs) *)

TranscodeSpawned == atSpawn.spawned

\* the argument list of the transcode subprocess
TranscodeCmd == spawned[Len(spawned)]

OptPair(flag, o) == IF o.some THEN <<Arg(flag), o.val>> ELSE <<>>

MapPairs(map) ==
    [i \in 1..(2 * Len(map)) |-> IF i % 2 = 1 THEN Arg("-map") ELSE map[i \div 2]]

\* C1: the argument list of the transcode is [-ss start] [-to end]
\* [-t duration], the preset's pre-input flags, -i and the input path, one
\* "-map m" pair per map entry in the caller's order, the preset's output
\* flags, and the output path last.
C1_ArgumentOrder ==
    TranscodeSpawned =>
        /\ TranscodeCmd = OptPair("-ss", m.start) \o OptPair("-to", m.end)
                          \o OptPair("-t", m.duration) \o InputArgs(format)
                          \o <<Arg("-i"), m.input>> \o MapPairs(m.map)
                          \o OutputArgs(format) \o <<output>>
        /\ TranscodeCmd[Len(TranscodeCmd)] = output
        /\ Cardinality({i \in 1..Len(TranscodeCmd) : TranscodeCmd[i] = Arg("-map")})
             = Len(m.map)

C1_Witness ==
    /\ TranscodeSpawned
    /\ format = YouTube
    /\ m.start.some /\ m.end.some /\ m.duration.some
    /\ m.map = <<<<"0:1">>, <<"0:0">>>>

\* the list a without its entries k and k+1
DeletePair(a, k) == SubSeq(a, 1, k - 1) \o SubSeq(a, k + 2, Len(a))

\* a holds the pair (flag, value) and is, without it, the list b
RemovesExactly(a, flag, value, b) ==
    \E k \in 1..(Len(a) - 1) :
        /\ a[k] = Arg(flag)
        /\ a[k + 1] = value
        /\ DeletePair(a, k) = b

\* C9: for each of start, end and duration, the list built with the field
\* unset is the list built with it set minus that field's flag/value pair;
\* end and duration do not suppress each other, and -to comes before -t.
C9_TrimIndependence ==
    TranscodeSpawned =>
        /\ m.start.some =>
             RemovesExactly(TranscodeCmd, "-ss", m.start.val,
                 TranscodeArgs([ffmpeg EXCEPT !.start = None], format, m.input, output))
        /\ m.end.some =>
             RemovesExactly(TranscodeCmd, "-to", m.end.val,
                 TranscodeArgs([ffmpeg EXCEPT !.end = None], format, m.input, output))
        /\ m.duration.some =>
             RemovesExactly(TranscodeCmd, "-t", m.duration.val,
                 TranscodeArgs([ffmpeg EXCEPT !.duration = None], format, m.input, output))
        /\ (m.end.some /\ m.duration.some) =>
             \E i, j \in 1..(Len(TranscodeCmd) - 1) :
                 /\ i < j
                 /\ TranscodeCmd[i] = Arg("-to") /\ TranscodeCmd[i + 1] = m.end.val
                 /\ TranscodeCmd[j] = Arg("-t") /\ TranscodeCmd[j + 1] = m.duration.val

C9_Witness ==
    /\ TranscodeSpawned
    /\ ~m.start.some /\ m.end.some /\ m.duration.some
    /\ Len(m.map) = 1

----------------------------------------------------------------------------
(* Properties of the format selection *)

\* the format match of main has been executed
FormatSelected == Len(trace) >= 2 /\ trace[2] = "format"

\* the preset a token names
PresetNamed(t) == CASE t = youtube -> YouTube [] t = gif -> Gif [] t = copy -> Copy

NamesPreset(t) == ToLower(t) \in {youtube, gif, copy}

RecognizedTokens == {youtube, YouTubeToken, gif, GifToken, copy, CopyToken}

\* C5 as stated: every upper/lower-case spelling of "youtube", "gif" and
\* "copy" passed to -f selects the corresponding preset.
C5_CaseInsensitive ==
    (FormatSelected /\ m.format.some /\ NamesPreset(m.format.val)) =>
        /\ format = PresetNamed(ToLower(m.format.val))
        /\ err.msg # "illegal --format"

\* C5 amended: of the upper/lower-case spellings of "youtube", "gif" and
\* "copy", exactly the all-lower-case one and "YouTube", "Gif", "Copy" select
\* the corresponding preset; every other spelling ends the invocation with
\* the illegal-format error naming the token.
C5_ExactSpellings ==
    (FormatSelected /\ m.format.some /\ NamesPreset(m.format.val)) =>
        IF m.format.val \in RecognizedTokens
        THEN /\ format = PresetNamed(ToLower(m.format.val))
             /\ err.msg # "illegal --format"
        ELSE /\ format = NoFormat
             /\ err = Error("illegal --format", m.format.val)
             /\ exitCode = ExitErr
             /\ pc = "done"

C5_Witness ==
    /\ FormatSelected
    /\ m.format = Some(<<"c", "O", "p", "Y">>)
    /\ err = Error("illegal --format", <<"c", "O", "p", "Y">>)

\* the transcode subprocess has not been spawned
NoTranscode ==
    /\ ~atSpawn.spawned
    /\ \A i \in 1..Len(spawned) : spawned[i] = VersionArgs
    /\ Len(spawned) <= 1

\* C8: once the format match has run, an absent -f has selected YouTube, a
\* recognized token its preset, and every other token has ended the
\* invocation with the illegal-format error naming exactly that token; for
\* such a token no transcode subprocess is spawned in any state.
C8_SelectionTotal ==
    /\ FormatSelected =>
         IF ~m.format.some THEN format = YouTube /\ err.msg # "illegal --format"
         ELSE IF m.format.val \in RecognizedTokens
              THEN format = PresetNamed(ToLower(m.format.val)) /\ err.msg # "illegal --format"
              ELSE /\ err = Error("illegal --format", m.format.val)
                   /\ exitCode = ExitErr
                   /\ pc = "done"
                   /\ format = NoFormat
    /\ (m.format.some /\ m.format.val \notin RecognizedTokens) => NoTranscode

C8_Witness ==
    /\ FormatSelected
    /\ m.format = Some(webm)
    /\ err = Error("illegal --format", webm)
    /\ spawned = <<VersionArgs>>

----------------------------------------------------------------------------
(* Properties of a run of main (Spec) *)

\* C2: if is_file saw a regular file at the output path, the invocation has
\* ended with the "output already exists" error and the only subprocess
\* spawned is the version probe.
C2_CollisionAborts ==
    atCheck.seen = "file" =>
        /\ pc = "done"
        /\ err = Error("output already exists", output)
        /\ exitCode = ExitErr
        /\ NoTranscode
        /\ Len(statuses) = 1

C2_Witness ==
    /\ atCheck.seen = "file"
    /\ pc = "done"
    /\ spawned = <<VersionArgs>>
    /\ format = Copy

ProbeFailed == Len(statuses) >= 1 /\ statuses[1] # "ok"

ToolUnavailable(e) == e.msg \in {"io error", "could not run: ffmpeg --version"}

\* C3: if the version probe failed to launch or exited non-zero, the
\* invocation has ended with the tool-unavailable error, whatever the -f
\* token and the input, no format was selected and no transcode spawned;
\* and no error is raised before the probe has been made.
C3_ProbeFirst ==
    /\ ProbeFailed =>
         /\ pc = "done"
         /\ exitCode = ExitErr
         /\ ToolUnavailable(err)
         /\ trace = <<"new">>
         /\ format = NoFormat
         /\ NoTranscode
         /\ Len(statuses) = 1
    /\ err # NoError => Len(statuses) >= 1

C3_Witness ==
    /\ ProbeFailed
    /\ pc = "done"
    /\ m.format = Some(webm)
    /\ statuses = <<"nonzero">>
    /\ ToolUnavailable(err)

\* C6 as stated: the output path is not a regular file at the moment the
\* transcode subprocess is spawned.
C6_NoFileAtSpawn == atSpawn.spawned => ~atSpawn.outputIsFile

ProbeOk == Len(statuses) >= 1 /\ statuses[1] = "ok"

TokenOk == ~m.format.some \/ m.format.val \in RecognizedTokens

MissingExtension ==
    /\ m.format.some
    /\ m.format.val \in {copy, CopyToken}
    /\ ~Extension(m.input).some

TranscodeStatus(r) == Len(statuses) = 2 /\ statuses[2] = r

C10_NoSelfTranscode ==
    /\ (atSpawn.spawned /\ atSpawn.inputIsFile /\ ~atCheck.changed) => output # m.input
    /\ ( /\ atCheck.seen # "none"
         /\ atCheck.inputIsFile
         /\ \/ format = YouTube /\ Extension(m.input) = Some(<<"mp4">>)
            \/ format = Gif /\ Extension(m.input) = Some(<<"gif">>) ) =>
          /\ output = m.input
          /\ pc = "done"
          /\ err = Error("output already exists", m.input)
          /\ NoTranscode
    /\ (format = Copy /\ (pc \in {"is_file", "transcode"} \/ atCheck.seen # "none")) =>
          output # m.input

C10_Witness ==
    /\ pc = "done"
    /\ format = YouTube
    /\ m.input = <<"v", ".", "mp4">>
    /\ output = m.input
    /\ atCheck.inputIsFile
    /\ err = Error("output already exists", m.input)

----------------------------------------------------------------------------
(* Properties of the output naming (SpecPath) *)

\* s is made of redundant trailing separators and "." components only
IsTrailing(s) ==
    \A i \in 1..Len(s) :
        /\ s[i] \in {"/", "."}
        /\ s[i] = "." => (i > 1 /\ s[i-1] = "/" /\ (i = Len(s) \/ s[i+1] = "/"))

IsPlain(e) == \A i \in 1..Len(e) : e[i] \notin {".", "/"}

\* The ways to read p as base, then possibly "." and an extension, then
\* trailing separators: the base is not empty and does not end in a separator.
Readings(p) ==
    {r \in [k : 1..Len(p), j : 0..Len(p)] :
        /\ p[r.k] # "/"
        /\ \/ r.j = 0 /\ IsTrailing(SubSeq(p, r.k + 1, Len(p)))
           \/ /\ r.j > r.k
              /\ p[r.k + 1] = "."
              /\ IsPlain(SubSeq(p, r.k + 2, r.j))
              /\ IsTrailing(SubSeq(p, r.j + 1, Len(p)))}

\* the reading with the shortest base: it takes the extension when there is one
Reading(p) == CHOOSE r \in Readings(p) : \A q \in Readings(p) : r.k <= q.k

HasExt(p) == Readings(p) # {} /\ Reading(p).j > 0

ExtOf(p) == SubSeq(p, Reading(p).k + 2, Reading(p).j)

\* p with its extension replaced by e, or e appended when it has none
Replaced(p, e) ==
    IF Readings(p) = {} THEN p \o <<".">> \o e
    ELSE SubSeq(p, 1, Reading(p).k) \o <<".">> \o e

OutputDerived == Len(trace) >= 3 /\ trace[3] = "output"

\* C4 as stated: for YouTube the output is the input with its extension
\* replaced by mp4 (appended when it has none), for Gif by gif, for Copy on an
\* input with extension E by copy.E, and Copy on an input without extension
\* is an error and no path.
C4_OutputNaming ==
    OutputDerived =>
        CASE format = YouTube ->
                pc = "is_file" /\ output = Replaced(m.input, <<"mp4">>)
          [] format = Gif ->
                pc = "is_file" /\ output = Replaced(m.input, <<"gif">>)
          [] format = Copy ->
                IF HasExt(m.input)
                THEN /\ pc = "is_file"
                     /\ output = Replaced(m.input, <<"copy", ".">> \o ExtOf(m.input))
                ELSE /\ pc = "done"
                     /\ output = <<>>
                     /\ err = Error("expected extension", m.input)

====
